---- MODULE Spec2Model ----
(***************************************************************************)
(* Augmented-memory streaming self-attention                               *)
(* (fairseq/models/speech_to_text/modules/augmented_memory_attention.py).  *)
(*                                                                         *)
(* Two specifications share this module:                                   *)
(*   SpecAttn  one AugmentedMemoryMultiheadAttention operator called       *)
(*             directly, segment after segment, on one per-layer state;    *)
(*   Spec      one AugmentedMemoryConvTransformerEncoder driving its layer *)
(*             stack for the segments of two streams.                      *)
(*                                                                         *)
(* A tensor of shape (rows, batch, dim) is a sequence of rows.  A row is a *)
(* term <<op, operands...>> naming the operation that produced it and the  *)
(* rows it was computed from: the learned projections, layer norms and     *)
(* feed-forward weights are parameters of the base classes, so the numbers *)
(* in a row are not modelled, its provenance is.  Attention scores are     *)
(* modelled numerically (finite integers and -inf), probabilities as exact *)
(* fractions or NaN.                                                       *)
(***************************************************************************)
EXTENDS Integers, Sequences, FiniteSets, TLC

\* ------------------------------------------------------------------ bounds
MaxCalls == 3
MaxSegLen == 2
MaxMemCap == 2
BatchSize == 2
MaxEncodeCalls == 3
MaxFrames == 2

\* --------------------------------------------------------- hyperparameters
NumHeads == 2
EmbedDim == 8
NumLayers == 2
HeadDim == EmbedDim \div NumHeads

VARIABLES
    attn,       \* the attention operator's configuration (SpecAttn)
    state,      \* the per-layer state dict handed to the direct calls
    ncalls,     \* number of attention calls made on state
    produced,   \* every new memory vector computed so far, in order (history)
    call,       \* locals of the last attention call, kept for inspection
    enc,        \* the encoder's configuration (Spec)
    heap,       \* the dicts and lists the per-stream states are made of
    streams,    \* per stream, the states value its caller holds
    hist,       \* per stream, the segments encoded so far (history)
    ret         \* what the last encoder call returned, and its layer trace

avars == <<attn, state, ncalls, produced, call>>
evars == <<enc, heap, streams, hist, ret>>
vars == <<attn, state, ncalls, produced, call, enc, heap, streams, hist, ret>>

\* ------------------------------------------------------------- python helpers
Min(a, b) == IF a < b THEN a ELSE b
Max(a, b) == IF a > b THEN a ELSE b

\* Python's normalisation of a slice index against a sequence of length n.
PyIndex(i, n) == IF i < 0 THEN Max(i + n, 0) ELSE Min(i, n)

\* s[start:stop]
PySlice(s, start, stop) ==
    LET a == PyIndex(start, Len(s))
        b == PyIndex(stop, Len(s))
    IN  IF a < b THEN SubSeq(s, a + 1, b) ELSE <<>>

\* s[start:]
PySliceFrom(s, start) == PySlice(s, start, Len(s))

RECURSIVE SumSeq(_)
SumSeq(s) == IF s = <<>> THEN 0 ELSE s[1] + SumSeq(Tail(s))

\* ------------------------------------------------------------------ values
NoneVal == <<"None">>

Fin(v) == [k |-> "fin", v |-> v]
NegInf == [k |-> "-inf", v |-> 0]

Frac(n, d) == [k |-> "num", n |-> n, d |-> d]
NaN == [k |-> "nan", n |-> 0, d |-> 0]
IsZero(p) == p.k = "num" /\ p.n = 0

\* exp(0), exp(1), exp(2) to one decimal, as integers (only ratios matter)
ExpTab == <<10, 27, 74>>
Exp(w) == IF w.k = "-inf" THEN 0 ELSE ExpTab[w.v + 1]

\* --------------------------------------------------------------------- rows
Frame(seg, t) == <<"frame", seg, t>>
SummaryQuery(seg) == <<"summary", seg>>

\* one row of out_proj(bmm(attention_probs, v)): a function of its query row and
\* of the key/value source
AttnRow(q, kv) == <<"attn", q, kv>>

\* torch.tanh, or the identity when tanh_on_mem is off
squash_mem(tanh_on_mem, m) == IF tanh_on_mem THEN <<"tanh", m>> ELSE m

\* --------------------------------------------------------- attention scores
\* A score tensor of shape (batch*heads, queries, keys) is w[bh][r][c].

\* torch.bmm(q, k^T): the values depend on the projection weights of the operator
\* and on the data; the weights are enumerated by a seed chosen at construction.
RawScores(seed, nbh, nq, nk) ==
    [bh \in 1..nbh |-> [r \in 1..nq |-> [c \in 1..nk |->
        Fin((seed * c + r + bh) % Len(ExpTab))]]]

\* attention_weights[:, -1, :len(memory_banks)] = -inf
MaskMemOnMemNone(w, nmem) == w
MaskMemOnMem(w, nmem) ==
    [bh \in 1..Len(w) |-> [r \in 1..Len(w[bh]) |-> [c \in 1..Len(w[bh][r]) |->
        IF r = Len(w[bh]) /\ c <= nmem THEN NegInf ELSE w[bh][r][c]]]]

\* softmax over the key dimension of one query row: exp(-inf) = 0, and a row
\* that is -inf everywhere is 0/0 = NaN in every entry
SoftmaxRow(row) ==
    LET W == SumSeq([c \in 1..Len(row) |-> Exp(row[c])])
    IN  [c \in 1..Len(row) |-> IF W = 0 THEN NaN ELSE Frac(Exp(row[c]), W)]

Softmax(w) ==
    [bh \in 1..Len(w) |-> [r \in 1..Len(w[bh]) |-> SoftmaxRow(w[bh][r])]]

\* One query row of attention_suppression, scale = <<numerator, denominator>>.
\* With p[c] = e[c]/W and n nonzero entries, key_mean = 1/n and
\* key_var = sum over nonzero (p - 1/n)^2 / (n - 1); p[c] < key_mean - scale*key_std
\* is compared exactly after multiplying by (n*W)^2.  The 1e-8 guards only keep
\* the divisions defined (n = 1 gives key_var = 0).  A NaN row compares False
\* everywhere and is returned as it came.
SuppressRowOnProbs(row, scale) ==
    LET e == [c \in 1..Len(row) |-> Exp(row[c])]
        W == SumSeq(e)
        n == Cardinality({c \in 1..Len(row) : e[c] > 0})
        dev == SumSeq([c \in 1..Len(row) |->
                   IF e[c] > 0 THEN (n * e[c] - W) * (n * e[c] - W) ELSE 0])
        Below(c) ==
            /\ W > 0
            /\ W > n * e[c]
            /\ \/ n = 1
               \/ (W - n * e[c]) * (W - n * e[c]) * (n - 1) * scale[2] * scale[2]
                      > scale[1] * scale[1] * dev
    IN  [c \in 1..Len(row) |-> IF Below(c) THEN NegInf ELSE Frac(e[c], W)]
SuppressRow(row, scale) ==
    LET e == [c \in 1..Len(row) |-> Exp(row[c])]
        W == SumSeq(e)
        n == Cardinality({c \in 1..Len(row) : e[c] > 0})
        dev == SumSeq([c \in 1..Len(row) |->
                   IF e[c] > 0 THEN (n * e[c] - W) * (n * e[c] - W) ELSE 0])
        Below(c) ==
            /\ W > 0
            /\ W > n * e[c]
            /\ \/ n = 1
               \/ (W - n * e[c]) * (W - n * e[c]) * (n - 1) * scale[2] * scale[2]
                      > scale[1] * scale[1] * dev
    IN  [c \in 1..Len(row) |-> IF Below(c) THEN NegInf ELSE row[c]]

attention_suppression(attention_weights, scale) ==
    [bh \in 1..Len(attention_weights) |->
        [r \in 1..Len(attention_weights[bh]) |->
            SuppressRow(attention_weights[bh][r], scale)]]

\* key_padding_mask is [none |-> BOOLEAN, m |-> <<row of batch 1, ...>>]
NoMask == [none |-> TRUE, m |-> <<>>]
Mask(m) == [none |-> FALSE, m |-> m]
MaskAny(kpm) ==
    ~kpm.none /\ \E b \in 1..Len(kpm.m) : \E t \in 1..Len(kpm.m[b]) : kpm.m[b][t]

\* masks that pad the tail of a batch element, as lengths produce them: every
\* batch element is full but the last, which holds n valid frames
LengthMask(n, L) ==
    Mask([b \in 1..BatchSize |-> [t \in 1..L |-> b = BatchSize /\ t > n]])

\* torch.cat([new_zeros(batch_size, len(memory_banks)), key_padding_mask], dim=1)
ExpandKeyPaddingMask(m, nmem) ==
    [b \in 1..Len(m) |-> [c \in 1..nmem |-> FALSE] \o m[b]]

\* view(batch_size, num_heads, tgt_len, src_len).masked_fill(mask[b], -inf):
\* row bh of the collapsed tensor belongs to batch element (bh - 1) \div heads
MaskedFill(w, m, heads) ==
    [bh \in 1..Len(w) |-> [r \in 1..Len(w[bh]) |-> [c \in 1..Len(w[bh][r]) |->
        IF m[((bh - 1) \div heads) + 1][c] THEN NegInf ELSE w[bh][r][c]]]]

\* masked_fill(torch.isnan(attention_probs), 0)
NanToZeroIdentity(p) == p
NanToZero(p) ==
    [bh \in 1..Len(p) |-> [r \in 1..Len(p[bh]) |-> [c \in 1..Len(p[bh][r]) |->
        IF p[bh][r][c].k = "nan" THEN Frac(0, 1) ELSE p[bh][r][c]]]]

\* ------------------------------------------- AugmentedMemoryMultiheadAttention
NoScale == <<0, 0>>
HalfScale == <<1, 2>>      \* std_scale = 0.5

\* the local memory_banks after the max_memory_size test
TruncateMemoryKeepOldest(memory_banks, max_memory_size) ==
    IF max_memory_size > -1 /\ Len(memory_banks) > max_memory_size
    THEN SubSeq(memory_banks, 1, max_memory_size)
    ELSE memory_banks
TruncateMemoryNoZeroCase(memory_banks, max_memory_size) ==
    IF max_memory_size > -1 /\ Len(memory_banks) > max_memory_size
    THEN PySliceFrom(memory_banks, -max_memory_size)
    ELSE memory_banks
TruncateMemory(memory_banks, max_memory_size) ==
    IF max_memory_size > -1 /\ Len(memory_banks) > max_memory_size
    THEN IF max_memory_size = 0
         THEN <<>>
         ELSE PySliceFrom(memory_banks, -max_memory_size)
    ELSE memory_banks

\* torch.cat(memory_banks + [input_and_summary[:-1]], dim=0)
KeyValueSource(memory_banks, input_and_summary) ==
    memory_banks \o PySlice(input_and_summary, 0, -1)

\* The score pipeline of forward for a call with locals r (nq = seg_length + 1
\* query rows, len(memory_banks) memory columns in front of the frame columns).
\* attention_weights = torch.bmm(q, k.transpose(1, 2))
RawOf(cfg, r) ==
    RawScores(cfg.seed, BatchSize * NumHeads, Len(r.input_and_summary),
              Len(r.memory_banks_and_input))

\* if self.disable_mem_on_mem_attn: mask the summary row on the memory columns
MaskedOf(cfg, r) ==
    IF cfg.disable_mem_on_mem_attn
    THEN MaskMemOnMem(RawOf(cfg, r), Len(r.memory_banks))
    ELSE RawOf(cfg, r)

\* if self.std_scale is not None: attention_suppression
SuppressedOf(cfg, r) ==
    IF cfg.std_scale # NoScale
    THEN attention_suppression(MaskedOf(cfg, r), cfg.std_scale)
    ELSE MaskedOf(cfg, r)

\* if key_padding_mask is not None and key_padding_mask.any(): masked_fill
PaddedOf(cfg, r) ==
    IF MaskAny(r.key_padding_mask)
    THEN MaskedFill(SuppressedOf(cfg, r),
             ExpandKeyPaddingMask(r.key_padding_mask.m, Len(r.memory_banks)),
             NumHeads)
    ELSE SuppressedOf(cfg, r)

\* softmax, dropout_module (the identity at inference), NaN replaced by zero
ProbsOf(cfg, r) == NanToZero(Softmax(PaddedOf(cfg, r)))

\* output = output_and_memory[:-1]
SplitOutputKeepAll(output_and_memory) == output_and_memory
SplitOutput(output_and_memory) == PySlice(output_and_memory, 0, -1)

\* next_m = output_and_memory[-1:] (one row)
SplitMemory(output_and_memory) == PySliceFrom(output_and_memory, -1)[1]

\* state["memory_banks"].append(next_m)
AppendMemoryReplace(bank, next_m) == <<next_m>>
AppendMemory(bank, next_m) == Append(bank, next_m)

\* tensor.view(shape): defined when the element counts agree
ViewShape(from, to) ==
    IF from[1] * from[2] * from[3] = to[1] * to[2] * to[3] THEN to ELSE NoneVal

\* no call made yet
NoCall == [seg_length |-> 0 - 1]

\* forward(input_and_summary, state, key_padding_mask): the locals at return and
\* the state's list after the call
forward(cfg, bank, input_and_summary, key_padding_mask) ==
    LET length == Len(input_and_summary)
        batch_size == BatchSize
        seg_length == length - 1
        memory_banks == TruncateMemory(bank, cfg.max_memory_size)
        memory_banks_and_input == KeyValueSource(memory_banks, input_and_summary)
        \* bmm(attention_probs, v): (batch*heads, seg_length + 1, head_dim),
        \* transposed and viewed as (seg_length + 1, batch_size, embed_dim)
        attention_shape == ViewShape(
            <<batch_size * NumHeads, seg_length + 1, HeadDim>>,
            <<seg_length + 1, batch_size, EmbedDim>>)
        output_and_memory ==
            [r \in 1..length |-> AttnRow(input_and_summary[r], memory_banks_and_input)]
        next_m == squash_mem(cfg.tanh_on_mem, SplitMemory(output_and_memory))
        output == SplitOutput(output_and_memory)
    IN  [input_and_summary |-> input_and_summary,
         seg_length |-> seg_length,
         entry |-> Len(bank),
         memory_banks |-> memory_banks,
         memory_banks_and_input |-> memory_banks_and_input,
         key_padding_mask |-> key_padding_mask,
         next_m |-> next_m,
         output |-> output,
         output_shape |-> <<Len(output), attention_shape[2], attention_shape[3]>>,
         bank |-> AppendMemory(bank, next_m)]

\* ------------------------------------------- AugmentedMemoryTransformerEncoderLayer
\* The heap: dicts[id] is a per-layer state {"memory_banks": list or None,
\* "encoder_states": tensor or None}; lists[ref] is a Python list of memory
\* vectors.  Reference 0 is None.
EmptyHeap == [dicts |-> <<>>, lists |-> <<>>]
Tensor(rows) == <<"tensor", rows>>

\* torch.mean(segment, keepdim=True, dim=0)
summarize_segment(segment) == <<"mean", segment>>
\* x.new_zeros(1, batch_size, x_dim)
ZeroQuery == <<"zeros">>

\* residual connections, layer norms and the feed-forward block, row by row
LayerRow(x_row, attn_row) == <<"layer", x_row, attn_row>>

\* the attention operator build_self_attention gives a layer
LayerAttention(max_memory_size) ==
    [max_memory_size |-> max_memory_size,
     std_scale |-> HalfScale,
     disable_mem_on_mem_attn |-> TRUE,
     tanh_on_mem |-> TRUE,
     seed |-> 0]

\* if state.get("memory_banks", None) is None: state["memory_banks"] = []
InitMemoryBanks(h, id) ==
    IF h.dicts[id].memory_banks = 0
    THEN [dicts |-> [h.dicts EXCEPT ![id].memory_banks = Len(h.lists) + 1],
          lists |-> Append(h.lists, <<>>)]
    ELSE h

\* AugmentedMemoryTransformerEncoderLayer.forward(x, state, encoder_padding_mask)
\* on the dict id of heap h: the heap after the call, the returned x and the
\* locals of the attention call
LayerForward(cfg, h, id, x, encoder_padding_mask) ==
    LET length == Len(x)
        h1 == InitMemoryBanks(h, id)
        ref == h1.dicts[id].memory_banks
        seg_start == cfg.left_context
        seg_end == length - cfg.right_context
        summarization_query ==
            IF seg_start < seg_end
            THEN summarize_segment(PySlice(x, seg_start, seg_end))
            ELSE ZeroQuery
        r == forward(LayerAttention(cfg.max_memory_size), h1.lists[ref],
                     Append(x, summarization_query), encoder_padding_mask)
    IN  [heap |-> [h1 EXCEPT !.lists[ref] = r.bank],
         x |-> [t \in 1..length |-> LayerRow(x[t], r.output[t])],
         attention |-> r]

\* ---------------------------------------- AugmentedMemoryConvTransformerEncoder
Streams == {1, 2}
NoStates == [none |-> TRUE, ids |-> <<>>]

\* states = [{"memory_banks": None, "encoder_states": None} for each layer]
NewStatesShared(h) ==
    [heap |-> [h EXCEPT !.dicts =
                  Append(h.dicts, [memory_banks |-> 0, encoder_states |-> NoneVal])],
     ids |-> [i \in 1..NumLayers |-> Len(h.dicts) + 1]]
NewStatesGlobal(h) ==
    [heap |-> IF h.dicts = <<>>
              THEN [h EXCEPT !.dicts = [i \in 1..NumLayers |->
                       [memory_banks |-> 0, encoder_states |-> NoneVal]]]
              ELSE h,
     ids |-> [i \in 1..NumLayers |-> i]]
NewStates(h) ==
    [heap |-> [h EXCEPT !.dicts = h.dicts \o [i \in 1..NumLayers |->
                  [memory_banks |-> 0, encoder_states |-> NoneVal]]],
     ids |-> [i \in 1..NumLayers |-> Len(h.dicts) + i]]

\* x[left_context_after_stride : -right_context_after_stride if
\*   right_context_after_stride > 0 else None]
TrimContextNegativeStop(x, lc, rc) == PySlice(x, lc, -rc)
TrimContext(x, lc, rc) ==
    IF rc > 0 THEN PySlice(x, lc, -rc) ELSE PySliceFrom(x, lc)

\* conv, out, embed_scale and positions: T subsampled rows of the segment seg
Subsampled(seg, T) == [t \in 1..T |-> Frame(seg, t)]

\* (src_lengths.float() / subsampling_factor).round().long() with
\* subsampling_factor = max_seq_len / output_seq_len: the quotient
\* src_length * output_seq_len / max_seq_len rounded half to even
RescaleLength(src_length, max_seq_len, output_seq_len) ==
    LET a == src_length * output_seq_len
        q == a \div max_seq_len
        rem == a % max_seq_len
    IN  IF 2 * rem < max_seq_len THEN q
        ELSE IF 2 * rem > max_seq_len THEN q + 1
        ELSE IF q % 2 = 0 THEN q ELSE q + 1

\* lengths_to_encoder_padding_mask(input_lengths, batch_first=True), every
\* batch element of T valid frames but the last, which has n
EncoderPaddingMask(n, T) == LengthMask(n, T)

\* the loop over self.transformer_layers from layer i on: the heap and x at the
\* end, and for each layer the dict it was given, the heap and x after it
RECURSIVE LayerLoopTrimmed(_, _, _, _, _, _, _)
LayerLoopTrimmed(cfg, h, ids, x, mask, i, trace) ==
    IF i > NumLayers
    THEN [heap |-> h, x |-> x, trace |-> trace]
    ELSE LET r == LayerForward(cfg, h, ids[i], x, mask)
             h2 == [r.heap EXCEPT !.dicts[ids[i]].encoder_states =
                       Tensor(TrimContext(r.x, cfg.left_context, cfg.right_context))]
         IN  LayerLoopTrimmed(cfg, h2, ids,
                       TrimContext(r.x, cfg.left_context, cfg.right_context),
                       mask, i + 1,
                       Append(trace, [state |-> ids[i], heap |-> h2, x |-> r.x,
                                      attention |-> r.attention]))
RECURSIVE LayerLoop(_, _, _, _, _, _, _)
LayerLoop(cfg, h, ids, x, mask, i, trace) ==
    IF i > NumLayers
    THEN [heap |-> h, x |-> x, trace |-> trace]
    ELSE LET r == LayerForward(cfg, h, ids[i], x, mask)
             h2 == [r.heap EXCEPT !.dicts[ids[i]].encoder_states =
                       Tensor(TrimContext(r.x, cfg.left_context, cfg.right_context))]
         IN  LayerLoop(cfg, h2, ids, r.x, mask, i + 1,
                       Append(trace, [state |-> ids[i], heap |-> h2, x |-> r.x,
                                      attention |-> r.attention]))

\* (~mask[:, lc : -rc or None]).sum(dim=1, keepdim=True)
ValidLengthsNegativeStop(mask, lc, rc) ==
    [b \in 1..Len(mask.m) |->
        LET kept == PySlice(mask.m[b], lc, 0 - rc)
        IN  Cardinality({t \in 1..Len(kept) : ~kept[t]})]
ValidLengths(mask, lc, rc) ==
    [b \in 1..Len(mask.m) |->
        LET kept == TrimContext(mask.m[b], lc, rc)
        IN  Cardinality({t \in 1..Len(kept) : ~kept[t]})]

\* forward(src_tokens, src_lengths, states) for a segment seg of max_seq_len =
\* T * stride input frames, subsampled to T, of which the last batch element
\* has src_length valid and the others all: the heap afterwards and the
\* returned triple
EncoderForward(cfg, h, states, seg, T, src_length) ==
    LET max_seq_len == T * cfg.encoder_stride
        n == RescaleLength(src_length, max_seq_len, T)
        mask == EncoderPaddingMask(n, T)
        st == IF states.none THEN NewStates(h) ELSE [heap |-> h, ids |-> states.ids]
        run == LayerLoop(cfg, st.heap, st.ids, Subsampled(seg, T), mask, 1, <<>>)
    IN  [heap |-> run.heap,
         out |-> run.heap.dicts[st.ids[Len(st.ids)]].encoder_states,
         lengths |-> ValidLengths(mask, cfg.left_context, cfg.right_context),
         states |-> [none |-> FALSE, ids |-> st.ids],
         entry |-> st.heap,
         trace |-> run.trace,
         mask |-> mask,
         input_lengths |-> n,
         T |-> T]

\* ---------------------------------------------------------------------- Spec
RawContexts == {0, 2}
Strides == {1, 2}
EncoderMemorySizes == {-1, 0, 1}

Init ==
    /\ \E max_memory_size \in EncoderMemorySizes :
       \E left_context \in RawContexts : \E right_context \in RawContexts :
       \E encoder_stride \in Strides :
           enc = [max_memory_size |-> max_memory_size,
                  encoder_stride |-> encoder_stride,
                  left_context |-> left_context \div encoder_stride,
                  right_context |-> right_context \div encoder_stride]
    /\ heap = EmptyHeap
    /\ streams = [s \in Streams |-> NoStates]
    /\ hist = [s \in Streams |-> <<>>]
    /\ ret = NoneVal
    /\ attn = LayerAttention(enc.max_memory_size)
    /\ state = [memory_banks |-> <<>>]
    /\ ncalls = 0
    /\ produced = <<>>
    /\ call = NoCall

EncodeCalls == Len(hist[1]) + Len(hist[2])

\* the caller of stream s encodes its next segment, of T subsampled frames,
\* of whose input frames the last batch element has src_length valid, and
\* keeps the returned states
Encode(s, T, src_length) ==
    /\ EncodeCalls < MaxEncodeCalls
    /\ \E r \in {EncoderForward(enc, heap, streams[s], <<s, Len(hist[s]) + 1>>, T,
                                      src_length)} :
        /\ heap' = r.heap
        /\ streams' = [streams EXCEPT ![s] = r.states]
        /\ ret' = [stream |-> s, T |-> r.T, input_lengths |-> r.input_lengths,
                    out |-> r.out, lengths |-> r.lengths, states |-> r.states]
    /\ hist' = [hist EXCEPT ![s] = Append(@, T)]
    /\ UNCHANGED <<enc, avars>>

Next ==
    \E s \in Streams : \E T \in 1..MaxFrames :
        \E src_length \in 0..(T * enc.encoder_stride) : Encode(s, T, src_length)

Spec == Init /\ [][Next]_vars

\* ------------------------------------------------------------------ SpecAttn
MemorySizes == -1..MaxMemCap

\* the projection weights enumerated: one seed per residue of the score range
Seeds == 0..(Len(ExpTab) - 1)

PaddingMasks(L) == {NoMask} \cup {LengthMask(n, L) : n \in 0..L}

InitAttn ==
    /\ attn \in [max_memory_size : MemorySizes,
                 std_scale : {NoScale, HalfScale},
                 disable_mem_on_mem_attn : BOOLEAN,
                 tanh_on_mem : BOOLEAN,
                 seed : Seeds]
    /\ state = [memory_banks |-> <<>>]
    /\ ncalls = 0
    /\ produced = <<>>
    /\ call = NoCall
    /\ enc = NoneVal
    /\ heap = EmptyHeap
    /\ streams = [s \in Streams |-> NoStates]
    /\ hist = [s \in Streams |-> <<>>]
    /\ ret = NoneVal

\* one direct call of the attention operator on a segment of L frames
Attend(L, key_padding_mask) ==
    /\ ncalls < MaxCalls
    /\ LET seg == ncalls + 1
           input_and_summary ==
               [t \in 1..(L + 1) |->
                   IF t <= L THEN Frame(seg, t) ELSE SummaryQuery(seg)]
       IN  \E r \in {forward(attn, state.memory_banks, input_and_summary,
                             key_padding_mask)} :
               /\ state' = [state EXCEPT !.memory_banks = r.bank]
               /\ produced' = Append(produced, r.next_m)
               /\ call' = r
    /\ ncalls' = ncalls + 1
    /\ UNCHANGED <<attn, evars>>

NextAttn ==
    \E L \in 0..MaxSegLen : \E key_padding_mask \in PaddingMasks(L) :
        Attend(L, key_padding_mask)

SpecAttn == InitAttn /\ [][NextAttn]_vars

\* ===================================================================== claims
\* locals of the last direct attention call
L_call == Len(call.input_and_summary) - 1
nmem_call == Len(call.memory_banks)
Called == ncalls > 0
BH == 1..(BatchSize * NumHeads)
\* the rows bh of the collapsed (batch*heads) dimension of batch element b
HeadsOf(b) == ((b - 1) * NumHeads + 1)..(b * NumHeads)
\* the new memory vectors computed by the calls before the last one
Earlier == SubSeq(produced, 1, ncalls - 1)
LastN(s, n) == SubSeq(s, Len(s) - n + 1, Len(s))
SegmentFrames == [t \in 1..L_call |-> Frame(ncalls, t)]

\* C1 (as stated): with max_memory_size = N >= 0, after k attention calls on a
\* state that started empty, len(state["memory_banks"]) = min(k, N).
C1_BankLengthIsMinCallsCap ==
    attn.max_memory_size >= 0
        => Len(state.memory_banks) = Min(ncalls, attn.max_memory_size)

\* C2: every attention call appends exactly one vector to state["memory_banks"],
\* the squashed last row of the projected output, behind all entries already
\* there, whatever the segment length and max_memory_size.
C2_CallAppendsOneSummary ==
    [][ncalls' = ncalls + 1 =>
          /\ Len(state'.memory_banks) = Len(state.memory_banks) + 1
          /\ SubSeq(state'.memory_banks, 1, Len(state.memory_banks))
                 = state.memory_banks
          /\ state'.memory_banks[Len(state'.memory_banks)]
                 = squash_mem(attn.tanh_on_mem,
                       AttnRow(SummaryQuery(ncalls'), call'.memory_banks_and_input))
      ]_vars

\* a call on a segment without frames, on a bank that already holds entries,
\* with max_memory_size = 0
C2_Witness ==
    /\ ncalls >= 2
    /\ L_call = 0
    /\ attn.max_memory_size = 0
    /\ Len(state.memory_banks) = call.entry + 1

\* C3: the memory vectors in front of the segment's frames in the key/value
\* source are the most recent min(m, N) summaries of the earlier calls, in the
\* order produced (N >= 1), all m of them when N = -1; the score matrix has
\* that many columns plus L.
C3_KeysAreMostRecentSummaries ==
    (Called /\ attn.max_memory_size # 0) =>
        LET m == call.entry
            N == attn.max_memory_size
            used == IF N = -1 THEN m ELSE Min(m, N)
        IN  /\ m = Len(Earlier)
            /\ call.memory_banks = LastN(Earlier, used)
            /\ call.memory_banks_and_input = LastN(Earlier, used) \o SegmentFrames
            /\ \A raw \in {RawOf(attn, call)} :
                   \A bh \in BH : \A r \in 1..(L_call + 1) :
                       Len(raw[bh][r]) = used + L_call

\* a call that finds more summaries in the bank than max_memory_size >= 1
C3_Witness ==
    /\ Called
    /\ attn.max_memory_size >= 1
    /\ call.entry > attn.max_memory_size
    /\ L_call >= 1

\* C4: with max_memory_size = 0 the key/value source of every call is the
\* current segment's non-summary frames alone.
C4_ZeroCapUsesSegmentOnly ==
    (Called /\ attn.max_memory_size = 0) =>
        /\ call.memory_banks = <<>>
        /\ call.memory_banks_and_input = SegmentFrames
        /\ \A raw \in {RawOf(attn, call)} :
               \A bh \in BH : \A r \in 1..(L_call + 1) :
                   Len(raw[bh][r]) = L_call

\* a later call (the state's list is not empty) with max_memory_size = 0
C4_Witness ==
    /\ attn.max_memory_size = 0
    /\ ncalls >= 2
    /\ call.entry >= 1
    /\ L_call >= 1

\* C5: with disable_mem_on_mem_attn and at least one memory vector used as a
\* key, the summary query row has probability exactly zero on every memory
\* column after softmax and NaN sanitization, for every head and batch element,
\* with or without suppression and key padding; the masking step leaves the
\* scores of the non-summary rows on the memory columns as they were.
C5_SummaryIgnoresMemory ==
    (Called /\ attn.disable_mem_on_mem_attn /\ nmem_call >= 1) =>
        \A attention_probs \in {ProbsOf(attn, call)} :
        \A masked \in {MaskedOf(attn, call)} : \A raw \in {RawOf(attn, call)} :
            /\ \A bh \in BH : \A c \in 1..nmem_call :
                   IsZero(attention_probs[bh][L_call + 1][c])
            /\ \A bh \in BH : \A r \in 1..L_call : \A c \in 1..nmem_call :
                   masked[bh][r][c] = raw[bh][r][c]

\* memory in use, frames present, suppression on and a mask that pads
C5_Witness ==
    /\ Called
    /\ attn.disable_mem_on_mem_attn
    /\ attn.std_scale = HalfScale
    /\ nmem_call >= 2
    /\ L_call >= 2
    /\ MaskAny(call.key_padding_mask)

\* key_padding_mask pads every frame of batch element b of the last call
FullyPadded(b) ==
    /\ Called
    /\ L_call >= 1
    /\ ~call.key_padding_mask.none
    /\ \A t \in 1..L_call : call.key_padding_mask.m[b][t]

\* C6 (as stated): when key_padding_mask pads every position of the segment for a
\* batch element, all attention probabilities of that batch element are zero,
\* for every query row and head and any number of memory vectors in use.
C6_FullyPaddedAllZero ==
    \A b \in 1..BatchSize : FullyPadded(b) =>
        \A attention_probs \in {ProbsOf(attn, call)} :
            \A bh \in HeadsOf(b) : \A r \in 1..(L_call + 1) :
                \A c \in 1..(nmem_call + L_call) :
                    IsZero(attention_probs[bh][r][c])

\* C6 (amended): for such a batch element the probabilities are zero on every
\* column of the segment's own frames, all zero when no memory vector is in
\* use, and never NaN.
C6_FullyPaddedFramesZero ==
    \A b \in 1..BatchSize : FullyPadded(b) =>
        \A attention_probs \in {ProbsOf(attn, call)} :
            \A bh \in HeadsOf(b) : \A r \in 1..(L_call + 1) :
                /\ \A c \in 1..(nmem_call + L_call) :
                       attention_probs[bh][r][c].k = "num"
                /\ \A c \in (nmem_call + 1)..(nmem_call + L_call) :
                       IsZero(attention_probs[bh][r][c])
                /\ nmem_call = 0 =>
                       \A c \in 1..L_call : IsZero(attention_probs[bh][r][c])

\* a fully padded batch element in a call that uses no memory, where softmax
\* gives NaN rows
C6_Witness ==
    /\ FullyPadded(BatchSize)
    /\ nmem_call = 0
    /\ \E bh \in HeadsOf(BatchSize) : \E r \in 1..(L_call + 1) :
           Softmax(PaddedOf(attn, call))[bh][r][1].k = "nan"

\* ------------------------------------------------------------ encoder claims
\* what the state list st refers to in heap h: per layer, the memory bank
\* (None before the first segment) and encoder_states
Deref(h, st) ==
    [i \in 1..Len(st.ids) |->
        [memory_banks |-> IF h.dicts[st.ids[i]].memory_banks = 0
                          THEN NoneVal
                          ELSE h.lists[h.dicts[st.ids[i]].memory_banks],
         encoder_states |-> h.dicts[st.ids[i]].encoder_states]]

\* the segments of lengths Ts of stream s processed alone, from segment k on
RECURSIVE SoloRun(_, _, _, _, _, _)
SoloRun(cfg, s, Ts, k, h, states) ==
    IF k > Len(Ts)
    THEN Deref(h, states)
    ELSE LET r == EncoderForward(cfg, h, states, <<s, k>>, Ts[k],
                                 Ts[k] * cfg.encoder_stride)
         IN  SoloRun(cfg, s, Ts, k + 1, r.heap, r.states)

\* C7: whatever the interleaving of the two streams' encode calls, the state
\* of each stream after its k-th call (memory bank and encoder_states of
\* every layer) is the state it has when its k segments are processed alone.
C7_StreamsDoNotInterfere ==
    \A s \in Streams :
        Deref(heap, streams[s]) = SoloRun(enc, s, hist[s], 1, EmptyHeap, NoStates)

\* stream 1 has encoded twice, the last call is its own, stream 2 has encoded
\* in between or before, and the banks are in use
C7_Witness ==
    /\ Len(hist[1]) >= 2
    /\ Len(hist[2]) >= 1
    /\ ret.stream = 1
    /\ enc.max_memory_size # 0
    /\ Deref(heap, streams[1]) # Deref(heap, streams[2])

\* the encode call of the step just taken, computed on the state before it
\* for a source length of the same rescaled length
LastEncode ==
    EncoderForward(enc, heap, streams[ret'.stream],
                   <<ret'.stream, Len(hist[ret'.stream]) + 1>>, ret'.T,
                   ret'.input_lengths * enc.encoder_stride)

\* C8: after an encode call on T subsampled frames every layer's
\* encoder_states is that layer's output for this segment without its first
\* lc and last rc rows (max(0, T - lc - rc) rows; T - lc rows when rc = 0 and
\* T >= lc), whatever the previous segment left there; the returned output is
\* the last layer's trimmed output and the returned list is the list threaded
\* through the layers.
C8_EncoderStatesAreTrimmedOutputs ==
    [][\A r \in {LastEncode} :
        LET T == ret'.T
            lc == enc.left_context
            rc == enc.right_context
            ids == ret'.states.ids
        IN  /\ \A i \in 1..NumLayers :
                  \A es \in {heap'.dicts[ids[i]].encoder_states} :
                      /\ es = Tensor(SubSeq(r.trace[i].x, lc + 1, T - rc))
                      /\ Len(es[2]) = Max(0, T - lc - rc)
                      /\ (rc = 0 /\ T >= lc) => Len(es[2]) = T - lc
                      /\ Len(r.trace[i].x) = T
                      /\ r.trace[i].state = ids[i]
            /\ ret'.out = Tensor(SubSeq(r.trace[NumLayers].x, lc + 1, T - rc))
            /\ ~streams[ret'.stream].none => ret'.states = streams[ret'.stream]
            /\ streams'[ret'.stream] = ret'.states]_vars

\* a second segment of a stream, no right context, a left context, and an
\* output of T - lc > 0 rows that replaced a shorter one
C8_Witness ==
    /\ EncodeCalls > 0
    /\ enc.right_context = 0
    /\ enc.left_context = 1
    /\ Len(hist[ret.stream]) = 2
    /\ hist[ret.stream] = <<1, 2>>
    /\ Len(ret.out[2]) = 1
    /\ \A i \in 1..NumLayers :
           Len(heap.dicts[ret.states.ids[i]].encoder_states[2]) = 1

\* the bank and encoder_states of dict id in heap h
LayerState(h, id) ==
    [memory_banks |-> IF h.dicts[id].memory_banks = 0
                      THEN <<>>
                      ELSE h.lists[h.dicts[id].memory_banks],
     encoder_states |-> h.dicts[id].encoder_states]

\* every stream that has encoded holds one state per layer, no two the same
\* dict or the same list, and each bank holds one summary per encode call
C9_OnePerLayer ==
    \A s \in Streams :
        IF streams[s].none
        THEN hist[s] = <<>>
        ELSE /\ Len(streams[s].ids) = NumLayers
             /\ \A i \in 1..NumLayers :
                    /\ Len(LayerState(heap, streams[s].ids[i]).memory_banks)
                           = Len(hist[s])
                    /\ \A j \in 1..NumLayers : i # j =>
                           /\ streams[s].ids[i] # streams[s].ids[j]
                           /\ heap.dicts[streams[s].ids[i]].memory_banks
                                  # heap.dicts[streams[s].ids[j]].memory_banks

\* the steps of the layers in the encode call of the step just taken
C9_LayerSteps ==
    \A r \in {LastEncode} :
        LET ids == r.states.ids
            before(i) == IF i = 1 THEN r.entry ELSE r.trace[i - 1].heap
        IN  /\ Len(r.trace) = NumLayers
            /\ r.trace[NumLayers].heap = heap'
            /\ streams[ret'.stream].none =>
                   \A i \in 1..NumLayers :
                       r.entry.dicts[ids[i]] =
                           [memory_banks |-> 0, encoder_states |-> NoneVal]
            /\ \A i \in 1..NumLayers :
                   /\ r.trace[i].state = ids[i]
                   /\ LayerState(r.trace[i].heap, ids[i]).memory_banks =
                          Append(LayerState(before(i), ids[i]).memory_banks,
                                 r.trace[i].attention.next_m)
                   /\ \A j \in 1..NumLayers : j # i =>
                          LayerState(r.trace[i].heap, ids[j]) =
                              LayerState(before(i), ids[j])

\* C9: from states = None on, a stream holds exactly one per-layer state per
\* layer (bank empty and encoder_states absent before the first segment);
\* an encode call runs every layer once, in stack order, on its own state,
\* the step of layer i appends one summary to its own bank and leaves the bank
\* and encoder_states of every other layer unchanged; so after k encode
\* calls every layer's bank has received k summaries.
C9_LayersOwnTheirState ==
    []C9_OnePerLayer /\ [][C9_LayerSteps]_vars

\* a stream after its third segment, each layer's bank holding three
\* summaries of its own
C9_Witness ==
    /\ Len(hist[1]) = 3
    /\ \A i \in 1..NumLayers :
           Len(LayerState(heap, streams[1].ids[i]).memory_banks) = 3
    /\ LayerState(heap, streams[1].ids[1]).memory_banks
           # LayerState(heap, streams[1].ids[2]).memory_banks

\* the rescaled length of the last batch element in the last encode call
\* (the other batch elements are of full length)
n_ret == ret.input_lengths

\* C11: the lengths returned by encode count the non-padding positions among
\* the subsampled positions lc .. T - rc - 1 of the mask of the rescaled
\* lengths: a batch element of rescaled length n (0 <= n <= T) gets
\* min(max(n - lc, 0), max(T - lc - rc, 0)), also when rc = 0.
C11_ReturnedLengths ==
    EncodeCalls > 0 =>
        LET T == ret.T
            lc == enc.left_context
            rc == enc.right_context
            mask == EncoderPaddingMask(n_ret, T).m
            rescaled == [b \in 1..BatchSize |-> IF b = BatchSize THEN n_ret ELSE T]
        IN  /\ n_ret \in 0..T
            /\ Len(ret.lengths) = BatchSize
            /\ \A b \in 1..BatchSize :
                   /\ ret.lengths[b] =
                          Cardinality({t \in lc..(T - rc - 1) : ~mask[b][t + 1]})
                   /\ ret.lengths[b] =
                          Min(Max(rescaled[b] - lc, 0), Max(T - lc - rc, 0))

\* no right context, a left context of one frame, two subsampled frames, both
\* valid: one valid frame is returned
C11_Witness ==
    /\ EncodeCalls > 0
    /\ enc.right_context = 0
    /\ enc.left_context = 1
    /\ enc.encoder_stride = 2
    /\ ret.T = 2
    /\ n_ret = 2
    /\ ret.lengths[BatchSize] = 1

\* the scale the filter is applied with: the configured std_scale, and one
\* standard deviation where the configuration has none
SuppressionScale == IF attn.std_scale = NoScale THEN <<1, 1>> ELSE attn.std_scale

\* the score matrix of the last call the filter is applied to: the scores
\* after the mem-on-mem mask, with the padded key columns at -inf
FilterInput ==
    IF MaskAny(call.key_padding_mask)
    THEN MaskedFill(MaskedOf(attn, call),
             ExpandKeyPaddingMask(call.key_padding_mask.m, nmem_call), NumHeads)
    ELSE MaskedOf(attn, call)

C13_LayersSeeFullSegment ==
    [][\A r \in {LastEncode} :
        LET T == ret'.T
            seg == <<ret'.stream, Len(hist[ret'.stream]) + 1>>
            trimmed == Max(0, T - enc.left_context - enc.right_context)
        IN  /\ \A b \in 1..BatchSize : Len(r.mask.m[b]) = T
            /\ Len(ret'.out[2]) = trimmed
            /\ \A i \in 1..NumLayers : \A a \in {r.trace[i].attention} :
                   /\ Len(a.input_and_summary) = T + 1
                   /\ SubSeq(a.input_and_summary, 1, T) =
                          IF i = 1 THEN Subsampled(seg, T) ELSE r.trace[i - 1].x
                   /\ Len(r.trace[i].x) = T
                   /\ a.key_padding_mask = r.mask
                   /\ \A w \in {RawOf(LayerAttention(enc.max_memory_size), a)} :
                      \A m \in {ExpandKeyPaddingMask(a.key_padding_mask.m,
                                                     Len(a.memory_banks))} :
                      \A cols \in {a.seg_length + Len(a.memory_banks)} :
                          /\ \A bh \in 1..Len(w) : \A q \in 1..Len(w[bh]) :
                                 Len(w[bh][q]) = cols
                          /\ \A b \in 1..BatchSize : Len(m[b]) = cols
                   /\ Len(heap'.dicts[ret'.states.ids[i]].encoder_states[2])
                          = trimmed]_vars

\* a second segment of a stream with unbounded memory, a left context of one
\* frame, two subsampled frames of which one is padding in the last batch
\* element, and one row returned
C13_Witness ==
    /\ EncodeCalls > 0
    /\ Len(hist[ret.stream]) >= 2
    /\ enc.max_memory_size = 0 - 1
    /\ enc.left_context = 1
    /\ enc.right_context = 0
    /\ ret.T = 2
    /\ ret.input_lengths = 1
    /\ Len(ret.out[2]) = 1
    /\ \A i \in 1..NumLayers :
           Len(LayerState(heap, ret.states.ids[i]).memory_banks) >= 2

\* C10: a call on an input of L + 1 rows returns an output of shape
\* (L, B, H*D), whatever the number of memory vectors held or used.
C10_OutputShape ==
    Called =>
        /\ Len(call.output) = L_call
        /\ call.output_shape = <<L_call, BatchSize, NumHeads * HeadDim>>
        /\ \A t \in 1..L_call :
               call.output[t] = AttnRow(Frame(ncalls, t), call.memory_banks_and_input)

\* the third segment, of the longest length, with two memory vectors in use
C10_Witness ==
    /\ ncalls = 3
    /\ L_call = MaxSegLen
    /\ nmem_call = 2
    /\ Len(call.output) = MaxSegLen

====
